---- MODULE Spec2Model ----
(***************************************************************************)
(* Process-scheduling simulation: the multi-core dispatcher                *)
(* (MultiCoreCPU), the per-core tick loop (CPUcore.run), the three         *)
(* scheduling policies (FCFS, SJF, RoundRobin) and compute_stats.          *)
(*                                                                         *)
(* A Process object is a record; a reference to a Process object held by a *)
(* scheduler (queue entry, current_process) is the index of the object in  *)
(* the core's object store: the objects of earlier runs on the core         *)
(* (retired), followed by the list the current CPUcore.run works on.       *)
(* Python's None is None (-1): every optional field of the program holds a *)
(* non-negative integer when it is set, and references are positive.       *)
(* An exception that ends a call is the value of pc.                       *)
(*                                                                         *)
(* Three specifications: Spec (one run of a valid configuration, then the  *)
(* statistics), SpecAPI (any configuration and list, repeated runs) and    *)
(* SpecScheduler (one scheduler called directly through add_process and    *)
(* get_next_process).                                                      *)
(***************************************************************************)
EXTENDS Integers, Sequences, FiniteSets, TLC

\* ---- bounds of the explored inputs ----
MaxProcs == 3
MaxArrival == 1
MaxBurst == 4
MaxQuantum == 3
MaxCores == 2
MaxRuns == 2
MaxClientTime == 3

\* ---- program constants ----
None == -1
IdlePid == -1
TimeCap == 100
SmallTotalBurst == 20
MinMaxTime == 30

VARIABLES
  scheduler_class,     \* MultiCoreCPU.__init__ argument: "FCFS", "SJF" or "RoundRobin"
  quantum,             \* MultiCoreCPU.__init__ argument (None unless RoundRobin)
  cores,               \* MultiCoreCPU.cores: one CPUcore (with its scheduler and run locals) per core
  pc,                  \* position of the caller: "constructed", "running", "returned", "stats",
                       \* or the exception that ended the call
  processes,           \* the caller's process list handed to MultiCoreCPU.run
  core_process_lists,  \* MultiCoreCPU.run local: the partition
  cur,                 \* MultiCoreCPU.run local: index of the core of the loop at line 101
  timelines,           \* MultiCoreCPU.run local and result
  processes_by_core,   \* main.py: completed processes per core, with the statistics of compute_stats
  aliased,             \* MultiCoreCPU.run's local list is the caller's list object
  results              \* what the calls of MultiCoreCPU.run have returned so far

vars == <<scheduler_class, quantum, cores, pc, processes, core_process_lists, cur,
          timelines, processes_by_core, aliased, results>>

Range(s) == {s[i] : i \in 1..Len(s)}

Min2(a, b) == IF a <= b THEN a ELSE b

Max2(a, b) == IF a >= b THEN a ELSE b

RECURSIVE SumBurst(_)
SumBurst(ps) ==
  IF ps = <<>> THEN 0 ELSE ps[1].burst_time + SumBurst(Tail(ps))

\* Process.__init__
Process(pid, arrival_time, burst_time) ==
  [pid |-> pid, arrival_time |-> arrival_time, burst_time |-> burst_time,
   remaining_time |-> burst_time, start_time |-> None, completion_time |-> None,
   waiting_time |-> None, turnaround_time |-> None]

\* ---- list.sort(key=...) : a stable sort, as Python's ----
\* mutant: x goes in front of the elements with an equal key (not stable)
RECURSIVE InsertByKey_front(_, _, _)
InsertByKey_front(s, x, key) ==
  IF s = <<>> THEN <<x>>
  ELSE IF key[Head(s)] < key[x] THEN <<Head(s)>> \o InsertByKey_front(Tail(s), x, key)
  ELSE <<x>> \o s

\* InsertByKey puts x behind every element whose key is <= key[x].
RECURSIVE InsertByKey(_, _, _)
InsertByKey(s, x, key) ==
  IF s = <<>> THEN <<x>>
  ELSE IF key[Head(s)] <= key[x] THEN <<Head(s)>> \o InsertByKey(Tail(s), x, key)
  ELSE <<x>> \o s

RECURSIVE SortByKey(_, _)
SortByKey(s, key) ==
  IF s = <<>> THEN <<>>
  ELSE InsertByKey(SortByKey(SubSeq(s, 1, Len(s) - 1), key), s[Len(s)], key)

\* ---- schedulers ----
\* FCFS.__init__, SJF.__init__, RoundRobin.__init__
NewScheduler(q) ==
  [queue |-> <<>>, processed_pids |-> {}, current_process |-> None,
   current_runtime |-> 0, quantum |-> q]

FCFS_add_process(sch, ps, p) ==
  IF ps[p].pid \notin sch.processed_pids
    THEN [sch EXCEPT !.queue = SortByKey(Append(sch.queue, p),
                                         [r \in Range(sch.queue) \cup {p} |-> ps[r].arrival_time]),
                     !.processed_pids = @ \cup {ps[p].pid}]
    ELSE sch

SJF_add_process(sch, ps, p) ==
  IF ps[p].pid \notin sch.processed_pids
    THEN [sch EXCEPT !.queue = Append(sch.queue, p),
                     !.processed_pids = @ \cup {ps[p].pid}]
    ELSE sch

\* mutant: the process is appended whether or not its pid was admitted before
RR_add_process_unchecked(sch, ps, p) ==
  [sch EXCEPT !.queue = Append(sch.queue, p),
              !.processed_pids = @ \cup {ps[p].pid}]

RR_add_process(sch, ps, p) ==
  IF ps[p].pid \notin sch.processed_pids
    THEN [sch EXCEPT !.queue = Append(sch.queue, p),
                     !.processed_pids = @ \cup {ps[p].pid}]
    ELSE sch

add_process(cls, sch, ps, p) ==
  CASE cls = "FCFS" -> FCFS_add_process(sch, ps, p)
    [] cls = "SJF" -> SJF_add_process(sch, ps, p)
    [] cls = "RoundRobin" -> RR_add_process(sch, ps, p)

\* mutant: an unfinished process is ready before it has arrived
Ready_unarrived(ps, p, current_time) ==
  ps[p].remaining_time > 0

\* mutant: a finished process is still ready
Ready_finished(ps, p, current_time) ==
  ps[p].arrival_time <= current_time

\* mutant: a process is ready only after its arrival tick
Ready_late(ps, p, current_time) ==
  ps[p].arrival_time < current_time /\ ps[p].remaining_time > 0

Ready(ps, p, current_time) ==
  ps[p].arrival_time <= current_time /\ ps[p].remaining_time > 0

\* mutant: the last ready process of the queue instead of the first
RECURSIVE FirstReady_last(_, _, _)
FirstReady_last(q, ps, current_time) ==
  IF q = <<>> THEN None
  ELSE IF Ready(ps, q[Len(q)], current_time) THEN q[Len(q)]
  ELSE FirstReady_last(SubSeq(q, 1, Len(q) - 1), ps, current_time)

\* get_next_process returns [scheduler |-> the scheduler after the call, result |-> reference or None]
RECURSIVE FirstReady(_, _, _)
FirstReady(q, ps, current_time) ==
  IF q = <<>> THEN None
  ELSE IF Ready(ps, Head(q), current_time) THEN Head(q)
  ELSE FirstReady(Tail(q), ps, current_time)

FCFS_get_next_process(sch, ps, current_time) ==
  [scheduler |-> sch,
   result |-> IF sch.queue = <<>> THEN None ELSE FirstReady(sch.queue, ps, current_time)]

\* mutant: the comparison reversed, the first maximal element
RECURSIVE FirstMin_max(_, _)
FirstMin_max(s, ps) ==
  IF Len(s) = 1 THEN s[1]
  ELSE LET m == FirstMin_max(SubSeq(s, 1, Len(s) - 1), ps)
       IN IF ps[s[Len(s)]].remaining_time > ps[m].remaining_time THEN s[Len(s)] ELSE m

\* mutant: among equal keys the last element wins
RECURSIVE FirstMin_last(_, _)
FirstMin_last(s, ps) ==
  IF Len(s) = 1 THEN s[1]
  ELSE LET m == FirstMin_last(SubSeq(s, 1, Len(s) - 1), ps)
       IN IF ps[s[Len(s)]].remaining_time <= ps[m].remaining_time THEN s[Len(s)] ELSE m

\* min(ready_processes, key=remaining_time): the first minimal element
RECURSIVE FirstMin(_, _)
FirstMin(s, ps) ==
  IF Len(s) = 1 THEN s[1]
  ELSE LET m == FirstMin(SubSeq(s, 1, Len(s) - 1), ps)
       IN IF ps[s[Len(s)]].remaining_time < ps[m].remaining_time THEN s[Len(s)] ELSE m

SJF_get_next_process(sch, ps, current_time) ==
  LET ready_processes == SelectSeq(sch.queue, LAMBDA p : Ready(ps, p, current_time))
  IN [scheduler |-> sch,
      result |-> IF ready_processes = <<>> THEN None ELSE FirstMin(ready_processes, ps)]

\* mutant: the selected process goes back to the front of the queue
RECURSIVE RR_cycle_stays(_, _, _, _)
RR_cycle_stays(sch, ps, current_time, n) ==
  IF n = 0 THEN [scheduler |-> sch, result |-> None]
  ELSE LET process == Head(sch.queue)
           popped == Tail(sch.queue)
       IN IF Ready(ps, process, current_time)
            THEN [scheduler |-> [sch EXCEPT !.current_process = process,
                                            !.current_runtime = 1,
                                            !.queue = <<process>> \o popped],
                  result |-> process]
            ELSE RR_cycle_stays([sch EXCEPT !.queue = Append(popped, process)],
                                ps, current_time, n - 1)

\* mutant: a process that is skipped is not put back into the queue
RECURSIVE RR_cycle_drops(_, _, _, _)
RR_cycle_drops(sch, ps, current_time, n) ==
  IF n = 0 THEN [scheduler |-> sch, result |-> None]
  ELSE LET process == Head(sch.queue)
           popped == Tail(sch.queue)
       IN IF Ready(ps, process, current_time)
            THEN [scheduler |-> [sch EXCEPT !.current_process = process,
                                            !.current_runtime = 1,
                                            !.queue = Append(popped, process)],
                  result |-> process]
            ELSE RR_cycle_drops([sch EXCEPT !.queue = popped], ps, current_time, n - 1)

\* mutant: pop() in place of popleft(), the search looks at the tail only
RECURSIVE RR_cycle_pops_tail(_, _, _, _)
RR_cycle_pops_tail(sch, ps, current_time, n) ==
  IF n = 0 THEN [scheduler |-> sch, result |-> None]
  ELSE LET process == sch.queue[Len(sch.queue)]
       IN IF Ready(ps, process, current_time)
            THEN [scheduler |-> [sch EXCEPT !.current_process = process,
                                            !.current_runtime = 1],
                  result |-> process]
            ELSE RR_cycle_pops_tail(sch, ps, current_time, n - 1)

\* the for loop of rr.py lines 62-78, with n iterations left
RECURSIVE RR_cycle(_, _, _, _)
RR_cycle(sch, ps, current_time, n) ==
  IF n = 0 THEN [scheduler |-> sch, result |-> None]
  ELSE LET process == Head(sch.queue)
           popped == Tail(sch.queue)
       IN IF Ready(ps, process, current_time)
            THEN [scheduler |-> [sch EXCEPT !.current_process = process,
                                            !.current_runtime = 1,
                                            !.queue = Append(popped, process)],
                  result |-> process]
            ELSE RR_cycle([sch EXCEPT !.queue = Append(popped, process)],
                          ps, current_time, n - 1)

\* mutant: the about-to-finish test left out, only the quantum test remains
RR_slice_over_quantum_only(runtime, q, remaining_time) ==
  runtime >= q

\* mutant: the quantum test left out, only the about-to-finish test remains
RR_slice_over_no_quantum(runtime, q, remaining_time) ==
  remaining_time <= 1

\* rr.py line 43: the slice of the running process ends at this call
RR_slice_over(runtime, q, remaining_time) ==
  runtime >= q \/ remaining_time <= 1

RR_get_next_process(sch, ps, current_time) ==
  IF sch.queue = <<>>
    THEN [scheduler |-> [sch EXCEPT !.current_process = None, !.current_runtime = 0],
          result |-> None]
  ELSE IF sch.current_process # None
    THEN LET bumped == [sch EXCEPT !.current_runtime = @ + 1]
         IN IF RR_slice_over(bumped.current_runtime, sch.quantum,
                             ps[sch.current_process].remaining_time)
              THEN RR_cycle([bumped EXCEPT !.current_runtime = 0, !.current_process = None],
                            ps, current_time, Len(sch.queue))
              ELSE [scheduler |-> bumped, result |-> sch.current_process]
  ELSE RR_cycle(sch, ps, current_time, Len(sch.queue))

get_next_process(cls, sch, ps, current_time) ==
  CASE cls = "FCFS" -> FCFS_get_next_process(sch, ps, current_time)
    [] cls = "SJF" -> SJF_get_next_process(sch, ps, current_time)
    [] cls = "RoundRobin" -> RR_get_next_process(sch, ps, current_time)

\* ---- CPUcore ----
\* CPUcore.__init__ plus the locals of CPUcore.run (unset until the run begins)
NewCore(q) ==
  [scheduler |-> NewScheduler(q), pc |-> "new", processes |-> <<>>, timeline |-> <<>>,
   time |-> 0, completed |-> 0, added_processes |-> {}, max_time |-> 0,
   retired |-> <<>>, shared |-> FALSE, time_limit_message |-> FALSE]

\* the Process objects a core's scheduler can hold references to
Store(c) == c.retired \o c.processes

\* the reference to the object at position i of the list CPUcore.run works on
Ref(c, i) == Len(c.retired) + i

\* mutant: no copy is made, the list and its objects stay the caller's
deepcopy_none(ps) == [objects |-> ps, fresh |-> FALSE]

\* copy.deepcopy of a list of Process objects: equal values, new objects
deepcopy(ps) == [objects |-> ps, fresh |-> TRUE]

\* cpu.py lines 27-32
MaxTime(total_burst) ==
  LET max_time == Min2(TimeCap, total_burst * 2)
  IN IF total_burst < SmallTotalBurst THEN Max2(max_time, MinMaxTime) ELSE max_time

\* mutant: the loop runs until every process has completed, without a time limit
LoopCondition_no_limit(c) == c.completed < Len(c.processes)

\* mutant: the loop runs to the time limit whether or not every process has
\* completed
LoopCondition_to_limit(c) == c.time < c.max_time

\* cpu.py line 34
LoopCondition(c) == c.completed < Len(c.processes) /\ c.time < c.max_time

\* mutant: the admission loop does not wait for the arrival time
RECURSIVE Admit_unarrived(_, _, _)
Admit_unarrived(cls, c, i) ==
  IF i > Len(c.processes) THEN c
  ELSE LET p == c.processes[i]
       IN IF p.pid \notin c.added_processes /\ p.completion_time = None
            THEN Admit_unarrived(cls,
                                 [c EXCEPT !.scheduler = add_process(cls, @, Store(c), Ref(c, i)),
                                           !.added_processes = @ \cup {p.pid}], i + 1)
            ELSE Admit_unarrived(cls, c, i + 1)

\* cpu.py lines 36-41: the admission loop from list position i on
RECURSIVE Admit(_, _, _)
Admit(cls, c, i) ==
  IF i > Len(c.processes) THEN c
  ELSE LET p == c.processes[i]
       IN IF p.arrival_time <= c.time /\ p.pid \notin c.added_processes
             /\ p.completion_time = None
            THEN Admit(cls, [c EXCEPT !.scheduler = add_process(cls, @, Store(c), Ref(c, i)),
                                      !.added_processes = @ \cup {p.pid}], i + 1)
            ELSE Admit(cls, c, i + 1)

\* mutant: start_time is stamped at every tick the process runs
Execute_restamps(c, current) ==
  IF current # None
    THEN LET object == Store(c)[current]
             remaining == object.remaining_time - 1
             ran == [object EXCEPT
                       !.start_time = c.time,
                       !.remaining_time = remaining,
                       !.completion_time = IF remaining = 0 THEN c.time + 1 ELSE @]
             stored == IF current <= Len(c.retired)
                         THEN [c EXCEPT !.retired[current] = ran]
                         ELSE [c EXCEPT !.processes[current - Len(c.retired)] = ran]
         IN [stored EXCEPT !.timeline = Append(@, <<c.time, object.pid>>),
                           !.time = @ + 1,
                           !.completed = IF remaining = 0 THEN @ + 1 ELSE @]
    ELSE [c EXCEPT !.timeline = Append(@, <<c.time, IdlePid>>), !.time = @ + 1]

\* mutant: an idle tick advances the time without a timeline entry
Execute_skip_idle(c, current) ==
  IF current # None
    THEN LET object == Store(c)[current]
             remaining == object.remaining_time - 1
             ran == [object EXCEPT
                       !.start_time = IF @ = None THEN c.time ELSE @,
                       !.remaining_time = remaining,
                       !.completion_time = IF remaining = 0 THEN c.time + 1 ELSE @]
             stored == IF current <= Len(c.retired)
                         THEN [c EXCEPT !.retired[current] = ran]
                         ELSE [c EXCEPT !.processes[current - Len(c.retired)] = ran]
         IN [stored EXCEPT !.timeline = Append(@, <<c.time, object.pid>>),
                           !.time = @ + 1,
                           !.completed = IF remaining = 0 THEN @ + 1 ELSE @]
    ELSE [c EXCEPT !.time = @ + 1]

\* mutant: completion_time is the tick that began, not the time after it
Execute_completes_early(c, current) ==
  IF current # None
    THEN LET object == Store(c)[current]
             remaining == object.remaining_time - 1
             ran == [object EXCEPT
                       !.start_time = IF @ = None THEN c.time ELSE @,
                       !.remaining_time = remaining,
                       !.completion_time = IF remaining = 0 THEN c.time ELSE @]
             stored == IF current <= Len(c.retired)
                         THEN [c EXCEPT !.retired[current] = ran]
                         ELSE [c EXCEPT !.processes[current - Len(c.retired)] = ran]
         IN [stored EXCEPT !.timeline = Append(@, <<c.time, object.pid>>),
                           !.time = @ + 1,
                           !.completed = IF remaining = 0 THEN @ + 1 ELSE @]
    ELSE [c EXCEPT !.timeline = Append(@, <<c.time, IdlePid>>), !.time = @ + 1]

\* mutant: the timeline entry is appended only at the tick that stamps
\* start_time
Execute_records_start_only(c, current) ==
  IF current # None
    THEN LET object == Store(c)[current]
             remaining == object.remaining_time - 1
             ran == [object EXCEPT
                       !.start_time = IF @ = None THEN c.time ELSE @,
                       !.remaining_time = remaining,
                       !.completion_time = IF remaining = 0 THEN c.time + 1 ELSE @]
             stored == IF current <= Len(c.retired)
                         THEN [c EXCEPT !.retired[current] = ran]
                         ELSE [c EXCEPT !.processes[current - Len(c.retired)] = ran]
         IN [stored EXCEPT !.timeline = IF object.start_time = None
                                          THEN Append(@, <<c.time, object.pid>>) ELSE @,
                           !.time = @ + 1,
                           !.completed = IF remaining = 0 THEN @ + 1 ELSE @]
    ELSE [c EXCEPT !.timeline = Append(@, <<c.time, IdlePid>>), !.time = @ + 1]

\* cpu.py lines 45-63: run the selected process for one time unit, or idle
Execute(c, current) ==
  IF current # None
    THEN LET object == Store(c)[current]
             remaining == object.remaining_time - 1
             ran == [object EXCEPT
                       !.start_time = IF @ = None THEN c.time ELSE @,
                       !.remaining_time = remaining,
                       !.completion_time = IF remaining = 0 THEN c.time + 1 ELSE @]
             stored == IF current <= Len(c.retired)
                         THEN [c EXCEPT !.retired[current] = ran]
                         ELSE [c EXCEPT !.processes[current - Len(c.retired)] = ran]
         IN [stored EXCEPT !.timeline = Append(@, <<c.time, object.pid>>),
                           !.time = @ + 1,
                           !.completed = IF remaining = 0 THEN @ + 1 ELSE @]
    ELSE [c EXCEPT !.timeline = Append(@, <<c.time, IdlePid>>), !.time = @ + 1]

\* one iteration of the loop of CPUcore.run
Iteration(cls, c) ==
  LET admitted == Admit(cls, c, 1)
      next == get_next_process(cls, admitted.scheduler, Store(admitted), admitted.time)
  IN Execute([admitted EXCEPT !.scheduler = next.scheduler], next.result)

\* ---- inputs ----
SchedulerClasses == {"FCFS", "SJF", "RoundRobin"}

\* pids are unique within a run; a list gives them in input order or in reverse
PidOrders(n) == {[i \in 1..n |-> i - 1], [i \in 1..n |-> n - i]}

\* a process that is on time: (arrival_time, burst_time)
OnTime == (0..MaxArrival) \X (1..MaxBurst)

\* a process that arrives around the smallest time limit: it completes exactly
\* at the limit, is cut off while running, or is never admitted
Stragglers == {<<MinMaxTime - 1, 1>>, <<MinMaxTime - 1, 2>>, <<MinMaxTime, 1>>}

\* the lists of (arrival_time, burst_time) of length n: on-time processes, the
\* last one possibly a straggler
Shapes(n) ==
  {f \in [1..n -> OnTime \cup Stragglers] : \A i \in 1..(n - 1) : f[i] \in OnTime}

ShortWorkloads ==
  UNION {{[i \in 1..n |-> Process(pid[i], f[i][1], f[i][2])] :
            pid \in PidOrders(n), f \in Shapes(n)}
         : n \in 0..MaxProcs}

\* bursts around the thresholds of the time limit: just below and at the total
\* burst from which the limit is twice the total burst, the one that reaches
\* the cap, and one that cannot finish below the cap
LongBursts == {SmallTotalBurst - 1, SmallTotalBurst, TimeCap \div 2, TimeCap + 1}

LongWorkloads == {<<Process(0, 0, b)>> : b \in LongBursts}

Workloads == ShortWorkloads \cup LongWorkloads

\* ---- the program ----
\* lists the data model excludes: a pid that occurs twice, a negative
\* arrival_time, a negative burst_time
MalformedWorkloads ==
  {<<Process(0, 0, 1), Process(0, 0, 2)>>, <<Process(0, -2, 1)>>, <<Process(0, 0, -2)>>}

\* the caller's list (main.py line 140) and MultiCoreCPU.__init__ (main.py
\* line 143) with a quantum and a number of cores of the given sets
Construct(quanta, core_counts, lists) ==
  /\ scheduler_class \in SchedulerClasses
  /\ quantum \in IF scheduler_class = "RoundRobin" THEN quanta ELSE {None}
  /\ \E num_cores \in core_counts : cores = [k \in 1..num_cores |-> NewCore(quantum)]
  /\ pc = "constructed"
  /\ processes \in lists
  /\ core_process_lists = <<>>
  /\ cur = 0
  /\ timelines = <<>>
  /\ processes_by_core = <<>>
  /\ aliased = FALSE
  /\ results = <<>>

\* a valid configuration: at least one core, a positive quantum
Init == Construct(1..MaxQuantum, 1..MaxCores, Workloads)

\* any configuration and list the classes accept, also no core, a quantum of 0
\* and a malformed list
InitAPI == Construct(0..MaxQuantum, 0..MaxCores, Workloads \cup MalformedWorkloads)

\* cpu.py lines 92-98: the stable sort by arrival time and the distribution
Partition(ps, num_cores) ==
  LET sorted == SortByKey(ps, [p \in Range(ps) |-> p.arrival_time])
  IN [k \in 1..num_cores |->
        SelectSeq([i \in 1..Len(sorted) |-> [idx |-> i - 1, process |-> sorted[i]]],
                  LAMBDA e : e.idx % num_cores = k - 1)]

\* mutant: every core is handed the whole sorted list
PartitionLists_whole(ps, num_cores) ==
  [k \in 1..num_cores |-> SortByKey(ps, [p \in Range(ps) |-> p.arrival_time])]

PartitionLists(ps, num_cores) ==
  LET part == Partition(ps, num_cores)
  IN [k \in 1..num_cores |-> [j \in 1..Len(part[k]) |-> part[k][j].process]]

\* MultiCoreCPU.run on the list ps, up to the first call of core.run: the sort is
\* in place, so it reorders the caller's list when the list was not copied;
\* idx % len(self.cores) raises ZeroDivisionError when there is no core
Begin(ps) ==
  LET copy == deepcopy(ps)
  IN /\ processes' = IF copy.fresh THEN ps
                      ELSE SortByKey(ps, [p \in Range(ps) |-> p.arrival_time])
     /\ aliased' = ~copy.fresh
     /\ core_process_lists' = PartitionLists(copy.objects, Len(cores))
     /\ pc' = IF Len(cores) = 0 /\ ps # <<>> THEN "ZeroDivisionError" ELSE "running"
     /\ cur' = 1
     /\ timelines' = <<>>
     /\ cores' = [k \in 1..Len(cores) |-> [cores[k] EXCEPT !.pc = "new"]]
     /\ UNCHANGED <<scheduler_class, quantum, processes_by_core, results>>

\* the first call of MultiCoreCPU.run on a new instance
RunBegin ==
  /\ pc = "constructed"
  /\ Begin(processes)

\* CPUcore.run lines 13-32 on the core of the dispatcher's loop; the objects of
\* an earlier run on this core stay alive in the scheduler
CoreBegin ==
  /\ pc = "running"
  /\ cur <= Len(cores)
  /\ cores[cur].pc = "new"
  /\ LET copy == deepcopy(core_process_lists[cur])
     IN cores' = [cores EXCEPT ![cur] =
                    [@ EXCEPT !.pc = "loop",
                              !.retired = @ \o cores[cur].processes,
                              !.processes = copy.objects,
                              !.shared = ~copy.fresh,
                              !.timeline = <<>>,
                              !.time = 0,
                              !.completed = 0,
                              !.added_processes = {},
                              !.max_time = MaxTime(SumBurst(copy.objects)),
                              !.time_limit_message = FALSE]]
  /\ UNCHANGED <<scheduler_class, quantum, pc, processes, core_process_lists, cur,
                 timelines, processes_by_core, aliased, results>>

\* CPUcore.run lines 34-63: one tick; the core writes to the objects of its own
\* list, which are the dispatcher's (and the caller's) only if no copy was made
Tick ==
  /\ pc = "running"
  /\ cur <= Len(cores)
  /\ cores[cur].pc = "loop"
  /\ LoopCondition(cores[cur])
  /\ cores' = [cores EXCEPT ![cur] = Iteration(scheduler_class, @)]
  /\ core_process_lists' =
       IF cores[cur].shared
         THEN [core_process_lists EXCEPT ![cur] = cores'[cur].processes]
         ELSE core_process_lists
  /\ processes' =
       IF cores[cur].shared /\ aliased
         THEN [i \in 1..Len(processes) |->
                 IF (i - 1) % Len(cores) = cur - 1
                   THEN cores'[cur].processes[((i - 1) \div Len(cores)) + 1]
                   ELSE processes[i]]
         ELSE processes
  /\ UNCHANGED <<scheduler_class, quantum, pc, cur, timelines, processes_by_core,
                 aliased, results>>

\* CPUcore.run lines 65-68 and cpu.py line 103
CoreEnd ==
  /\ pc = "running"
  /\ cur <= Len(cores)
  /\ cores[cur].pc = "loop"
  /\ ~LoopCondition(cores[cur])
  /\ cores' = [cores EXCEPT ![cur] =
                 [@ EXCEPT !.pc = "returned",
                           !.time_limit_message = cores[cur].time >= cores[cur].max_time]]
  /\ timelines' = Append(timelines, cores[cur].timeline)
  /\ cur' = cur + 1
  /\ UNCHANGED <<scheduler_class, quantum, pc, processes, core_process_lists,
                 processes_by_core, aliased, results>>

\* cpu.py line 105
RunEnd ==
  /\ pc = "running"
  /\ cur > Len(cores)
  /\ pc' = "returned"
  /\ results' = Append(results, timelines)
  /\ UNCHANGED <<scheduler_class, quantum, cores, processes, core_process_lists, cur,
                 timelines, processes_by_core, aliased>>

\* mutant: turnaround measured from start_time instead of arrival_time
WithStats_from_start(p) ==
  LET turnaround_time == p.completion_time - p.start_time
  IN [p EXCEPT !.turnaround_time = turnaround_time,
               !.waiting_time = Max2(0, turnaround_time - p.burst_time)]

\* stats.py lines 23-30 for one process
WithStats(p) ==
  LET turnaround_time == p.completion_time - p.arrival_time
  IN [p EXCEPT !.turnaround_time = turnaround_time,
               !.waiting_time = Max2(0, turnaround_time - p.burst_time)]

\* main.py lines 151-156: the completed processes of a core's scheduler queue
CompletedOfQueue(c) ==
  LET done == SelectSeq(c.scheduler.queue,
                        LAMBDA r : Store(c)[r].completion_time # None)
  IN [j \in 1..Len(done) |-> Store(c)[done[j]]]

\* main.py lines 151-158 with compute_stats
ComputeStats ==
  /\ pc = "returned"
  /\ processes_by_core' =
       [k \in 1..Len(cores) |->
          LET completed_processes == CompletedOfQueue(cores[k])
          IN [j \in 1..Len(completed_processes) |-> WithStats(completed_processes[j])]]
  /\ pc' = "stats"
  /\ UNCHANGED <<scheduler_class, quantum, cores, processes, core_process_lists, cur,
                 timelines, aliased, results>>

Next == RunBegin \/ CoreBegin \/ Tick \/ CoreEnd \/ RunEnd \/ ComputeStats

\* one run of a valid configuration on a well-formed list, then the statistics
\* (what main.py does for each configuration)
Spec == Init /\ [][Next]_vars

\* a further call of MultiCoreCPU.run on the same instance with the same list
RunAgain ==
  /\ pc = "returned"
  /\ Len(results) < MaxRuns
  /\ Begin(processes)

NextAPI ==
  RunBegin \/ CoreBegin \/ Tick \/ CoreEnd \/ RunEnd \/ ComputeStats \/ RunAgain

\* every use the classes allow: any configuration, any list, repeated runs
SpecAPI == InitAPI /\ [][NextAPI]_vars

\* ---- a scheduler driven directly through its two methods ----
\* the lists a client admits from: well-formed on-time lists of processes no
\* longer than the longest slice, with the pids in list order, and one list
\* with a pid that occurs twice
Pools ==
  {ps \in ShortWorkloads :
     \A i \in 1..Len(ps) : /\ ps[i].arrival_time <= MaxArrival
                            /\ ps[i].burst_time <= MaxQuantum
                            /\ ps[i].pid = i - 1}
    \cup {<<Process(0, 0, 1), Process(0, 0, 2)>>}

\* the client made no call since it last ran a process or idled
NoCall == [op |-> "none", argument |-> None, result |-> None]

\* a client that holds the Process objects of pool, a clock and one scheduler;
\* call is the latest call it made since it last ran a process or idled: the
\* method, its argument (a reference or a time) and what it returned
NewClient(q, pool) ==
  [scheduler |-> NewScheduler(q), processes |-> pool, retired |-> <<>>, time |-> 0,
   call |-> NoCall]

InitScheduler ==
  /\ scheduler_class \in SchedulerClasses
  /\ quantum \in IF scheduler_class = "RoundRobin" THEN 1..MaxQuantum ELSE {None}
  /\ processes \in Pools
  /\ cores = <<NewClient(quantum, processes)>>
  /\ pc = "client"
  /\ core_process_lists = <<>>
  /\ cur = 1
  /\ timelines = <<>>
  /\ processes_by_core = <<>>
  /\ aliased = FALSE
  /\ results = <<>>

\* scheduler.add_process(p) for any object of the client, at any time: before
\* its arrival, after its completion, or once more
CallAddProcess ==
  /\ pc = "client"
  /\ \E i \in 1..Len(cores[1].processes) :
       cores' = [cores EXCEPT
                   ![1].scheduler = add_process(scheduler_class, @, Store(cores[1]),
                                                Ref(cores[1], i)),
                   ![1].call = [op |-> "add_process", argument |-> Ref(cores[1], i),
                                result |-> None]]
  /\ UNCHANGED <<scheduler_class, quantum, pc, processes, core_process_lists, cur,
                 timelines, processes_by_core, aliased, results>>

\* scheduler.get_next_process(time) at the client's clock, which never goes back
\* (explored for the times below MaxClientTime)
CallGetNextProcess ==
  /\ pc = "client"
  /\ cores[1].time < MaxClientTime
  /\ LET next == get_next_process(scheduler_class, cores[1].scheduler, Store(cores[1]),
                                  cores[1].time)
     IN cores' = [cores EXCEPT
                    ![1].scheduler = next.scheduler,
                    ![1].call = [op |-> "get_next_process", argument |-> cores[1].time,
                                 result |-> next.result]]
  /\ UNCHANGED <<scheduler_class, quantum, pc, processes, core_process_lists, cur,
                 timelines, processes_by_core, aliased, results>>

\* cpu.py lines 45-56 without the time stamps, right after the call of
\* get_next_process: the returned process runs for one time unit, or the
\* client idles; the clock advances by 1
RunCurrent ==
  /\ pc = "client"
  /\ cores[1].call.op = "get_next_process"
  /\ LET current == cores[1].call.result
     IN cores' = [cores EXCEPT
                    ![1].processes =
                      IF current # None THEN [@ EXCEPT ![current].remaining_time = @ - 1]
                      ELSE @,
                    ![1].time = @ + 1,
                    ![1].call = NoCall]
  /\ UNCHANGED <<scheduler_class, quantum, pc, processes, core_process_lists, cur,
                 timelines, processes_by_core, aliased, results>>

NextScheduler == CallAddProcess \/ CallGetNextProcess \/ RunCurrent

\* every sequence of add_process and get_next_process calls with non-decreasing
\* times, each returned process run for one time unit or the call repeated
SpecScheduler == InitScheduler /\ [][NextScheduler]_vars

\* ---- runs with a quantum long enough for two full slices in a row ----
\* the smallest quantum whose slice of quantum - 1 ticks, run twice in a row, is
\* longer than the quantum
LongQuantum == MaxQuantum + 1

\* the smallest burst that two slices of LongQuantum - 1 ticks do not finish
\* (the second slice ends early once remaining_time <= 1)
TwoSliceBurst == 2 * LongQuantum - 1

\* a first process of up to TwoSliceBurst ticks and a short second process
\* that arrives with it or during its first slice
LongSliceWorkloads ==
  {<<Process(0, 0, b), Process(1, a, s)>> :
     b \in 1..TwoSliceBurst, a \in 0..MaxArrival, s \in 1..2}

InitLongQuantum == Construct({LongQuantum}, 1..MaxCores, LongSliceWorkloads)

\* one run with the long quantum, then the statistics
SpecLongQuantum == InitLongQuantum /\ [][Next]_vars

\* ---- the per-core loops of one run as one task per core ----
\* CPUcore.run lines 13-32 on the list ps: the copy and the locals of the call
Enter(c, ps) ==
  LET copy == deepcopy(ps)
  IN [c EXCEPT !.pc = "loop",
               !.retired = @ \o c.processes,
               !.processes = copy.objects,
               !.shared = ~copy.fresh,
               !.timeline = <<>>,
               !.time = 0,
               !.completed = 0,
               !.added_processes = {},
               !.max_time = MaxTime(SumBurst(copy.objects)),
               !.time_limit_message = FALSE]

\* CPUcore.run lines 34-63 to the end of the loop
RECURSIVE RunLoop(_, _)
RunLoop(cls, c) == IF LoopCondition(c) THEN RunLoop(cls, Iteration(cls, c)) ELSE c

\* CPUcore.run lines 34-63: the states of the call after each tick of the loop
RECURSIVE RunTrace(_, _)
RunTrace(cls, c) ==
  IF LoopCondition(c)
    THEN LET after == Iteration(cls, c) IN <<after>> \o RunTrace(cls, after)
    ELSE <<>>

\* cpu.py lines 100-103: core.run on every core, one after another, with the
\* timeline and the process records each call ends with
SequentialRun(cls, q, lists) ==
  [k \in 1..Len(lists) |-> RunLoop(cls, Enter(NewCore(q), lists[k]))]

\* the task of core k begins: core.run(core_processes) is entered
TaskBegin(k) ==
  /\ pc = "running"
  /\ cores[k].pc = "new"
  /\ cores' = [cores EXCEPT ![k] = Enter(@, core_process_lists[k])]
  /\ UNCHANGED <<scheduler_class, quantum, pc, processes, core_process_lists, cur,
                 timelines, processes_by_core, aliased, results>>

\* mutant: the clock is one counter shared by the cores
TaskTick_shared_time(k) ==
  /\ pc = "running"
  /\ cores[k].pc = "loop"
  /\ LoopCondition(cores[k])
  /\ LET ticked == Iteration(scheduler_class, cores[k])
     IN cores' = [j \in 1..Len(cores) |->
                    IF j = k THEN ticked
                    ELSE IF cores[j].pc = "loop" THEN [cores[j] EXCEPT !.time = ticked.time]
                    ELSE cores[j]]
  /\ UNCHANGED <<scheduler_class, quantum, pc, processes, core_process_lists, cur,
                 timelines, processes_by_core, aliased, results>>

\* one tick of the loop of core k (CPUcore.run lines 34-63), whatever the other
\* cores have done so far
TaskTick(k) ==
  /\ pc = "running"
  /\ cores[k].pc = "loop"
  /\ LoopCondition(cores[k])
  /\ cores' = [cores EXCEPT ![k] = Iteration(scheduler_class, @)]
  /\ core_process_lists' =
       IF cores[k].shared
         THEN [core_process_lists EXCEPT ![k] = cores'[k].processes]
         ELSE core_process_lists
  /\ processes' =
       IF cores[k].shared /\ aliased
         THEN [i \in 1..Len(processes) |->
                 IF (i - 1) % Len(cores) = k - 1
                   THEN cores'[k].processes[((i - 1) \div Len(cores)) + 1]
                   ELSE processes[i]]
         ELSE processes
  /\ UNCHANGED <<scheduler_class, quantum, pc, cur, timelines, processes_by_core,
                 aliased, results>>

\* the task of core k ends: CPUcore.run lines 65-68, the timeline is its result
TaskEnd(k) ==
  /\ pc = "running"
  /\ cores[k].pc = "loop"
  /\ ~LoopCondition(cores[k])
  /\ cores' = [cores EXCEPT ![k] =
                 [@ EXCEPT !.pc = "returned",
                           !.time_limit_message = cores[k].time >= cores[k].max_time]]
  /\ UNCHANGED <<scheduler_class, quantum, pc, processes, core_process_lists, cur,
                 timelines, processes_by_core, aliased, results>>

\* every task has ended: the timelines are combined in the order of the cores
\* (cpu.py lines 103-105)
Join ==
  /\ pc = "running"
  /\ \A k \in 1..Len(cores) : cores[k].pc = "returned"
  /\ timelines' = [k \in 1..Len(cores) |-> cores[k].timeline]
  /\ cur' = Len(cores) + 1
  /\ pc' = "returned"
  /\ results' = Append(results, timelines')
  /\ UNCHANGED <<scheduler_class, quantum, cores, processes, core_process_lists,
                 processes_by_core, aliased>>

NextParallel ==
  \/ RunBegin
  \/ \E k \in 1..Len(cores) : TaskBegin(k) \/ TaskTick(k) \/ TaskEnd(k)
  \/ Join

\* one run of a valid configuration with the cores' loops interleaved in any
\* order
SpecParallel == Init /\ [][NextParallel]_vars

\* ---- properties ----
\* the number of ticks of a timeline on which pid ran
Count(timeline, pid) == Cardinality({i \in 1..Len(timeline) : timeline[i][2] = pid})

\* the pids that ran on a timeline
PidsOf(timeline) == {timeline[i][2] : i \in 1..Len(timeline)} \ {IdlePid}

\* process i of core c has arrived at time t and is unfinished
ReadyAt(c, i, t) == c.processes[i].arrival_time <= t /\ c.processes[i].remaining_time > 0

\* C1: Conservation.  When CPUcore.run has returned, every process of the
\* core's partition occupies exactly burst_time entries of the core's timeline
\* (FCFS, SJF and RoundRobin).
C1_Conservation ==
  \A k \in 1..Len(cores) :
    cores[k].pc = "returned" =>
      \A i \in 1..Len(cores[k].processes) :
        Count(cores[k].timeline, cores[k].processes[i].pid) = cores[k].processes[i].burst_time

\* C2: Idle correctness.  The entry a tick at time t appends is (t, -1) if and
\* only if no process of the partition has arrived by t and is unfinished when
\* the tick begins; otherwise it is (t, pid) of some process.
C2_IdleCorrectness ==
  [][Tick =>
       LET c == cores[cur]
           entry == cores'[cur].timeline[c.time + 1]
       IN /\ Len(cores'[cur].timeline) = c.time + 1
          /\ entry[1] = c.time
          /\ entry[2] = IdlePid <=> ~\E i \in 1..Len(c.processes) : ReadyAt(c, i, c.time)]_vars

\* C2 witness: a RoundRobin core idled, then ran a process, then idled again.
C2_Witness ==
  /\ scheduler_class = "RoundRobin"
  /\ \E k \in 1..Len(cores) :
       LET tl == cores[k].timeline
       IN \E i, j, l \in 1..Len(tl) :
            i < j /\ j < l /\ tl[i][2] = IdlePid /\ tl[j][2] # IdlePid /\ tl[l][2] = IdlePid

\* C3: FCFS non-preemption.  Under FCFS a process that has started occupies
\* every tick from start_time until it has run burst_time ticks (or until the
\* present tick), and its completion_time is start_time + burst_time.
C3_FCFSNonPreemption ==
  scheduler_class = "FCFS" =>
    \A k \in 1..Len(cores) :
      LET c == cores[k]
      IN \A i \in 1..Len(c.processes) :
           LET p == c.processes[i]
           IN p.start_time # None =>
                /\ \A t \in p.start_time..(Min2(c.time, p.start_time + p.burst_time) - 1) :
                     c.timeline[t + 1] = <<t, p.pid>>
                /\ p.completion_time # None => p.completion_time = p.start_time + p.burst_time
                /\ p.completion_time = None => c.time < p.start_time + p.burst_time

\* C3 witness: under FCFS a process completed although another process of the
\* core arrived while it was running, and that other process ran afterwards.
C3_Witness ==
  /\ scheduler_class = "FCFS"
  /\ \E k \in 1..Len(cores) :
       LET ps == cores[k].processes
       IN \E i, j \in 1..Len(ps) :
            /\ ps[i].completion_time # None
            /\ ps[i].start_time < ps[j].arrival_time
            /\ ps[j].arrival_time < ps[i].completion_time
            /\ ps[j].start_time # None

\* C4: SJF selection.  Under SJF the process that runs at a tick has arrived,
\* is unfinished, and no arrived unfinished process of the core has a smaller
\* remaining_time when the tick begins.
C4_SJFSelection ==
  [][(Tick /\ scheduler_class = "SJF") =>
       LET c == cores[cur]
           entry == cores'[cur].timeline[c.time + 1]
       IN entry[2] # IdlePid =>
            \E i \in 1..Len(c.processes) :
              /\ c.processes[i].pid = entry[2]
              /\ ReadyAt(c, i, c.time)
              /\ \A j \in 1..Len(c.processes) :
                   ReadyAt(c, j, c.time) =>
                     c.processes[i].remaining_time <= c.processes[j].remaining_time]_vars

\* C4 witness: under SJF a running process was replaced by another process
\* while unfinished (it runs again later): a newly arrived shorter job preempted.
C4_Witness ==
  /\ scheduler_class = "SJF"
  /\ \E k \in 1..Len(cores) :
       LET tl == cores[k].timeline
       IN \E j, l \in 1..Len(tl) :
            /\ j + 1 < l
            /\ tl[j][2] # IdlePid /\ tl[j + 1][2] # IdlePid
            /\ tl[j + 1][2] # tl[j][2]
            /\ tl[l][2] = tl[j][2]

\* C5: RoundRobin bound.  After a RoundRobin call the process in the running
\* slot is the one the call returned, the slice counter counts the consecutive
\* calls of the slice that returned it (1 at the call that starts the slice,
\* one more at each call that continues it) and never exceeds the quantum;
\* with an empty running slot the call returned idle.
C5_RRBound ==
  [][(Tick /\ scheduler_class = "RoundRobin") =>
       LET c == cores[cur]
           before == c.scheduler
           after == cores'[cur].scheduler
           entry == cores'[cur].timeline[c.time + 1]
       IN /\ after.quantum >= 1
          /\ after.current_process = None => entry[2] = IdlePid
          /\ after.current_process # None =>
               /\ entry[2] = Store(c)[after.current_process].pid
               /\ after.current_runtime <= after.quantum
               /\ \/ after.current_runtime = 1
                  \/ /\ before.current_process = after.current_process
                     /\ before.current_runtime >= 1
                     /\ after.current_runtime = before.current_runtime + 1]_vars

\* C5 witness: under RoundRobin a process ran two consecutive ticks of one
\* slice, then another process ran, and the first one ran again later.
C5_Witness ==
  /\ scheduler_class = "RoundRobin"
  /\ \E k \in 1..Len(cores) :
       LET tl == cores[k].timeline
       IN \E j, l \in 1..Len(tl) :
            /\ j + 2 < l
            /\ tl[j][2] # IdlePid /\ tl[j + 1][2] = tl[j][2]
            /\ tl[j + 2][2] # IdlePid /\ tl[j + 2][2] # tl[j][2]
            /\ tl[l][2] = tl[j][2]
            /\ (j > 1 => tl[j - 1][2] # tl[j][2])

\* C6: RoundRobin slice length.  When a call ends the slice of the running
\* process and that process had started the slice with remaining_time greater
\* than quantum + 1, the slice has run exactly quantum ticks.
C6_RRSliceLength ==
  [][(Tick /\ scheduler_class = "RoundRobin") =>
       LET c == cores[cur]
           before == c.scheduler
           after == cores'[cur].scheduler
           continued == /\ after.current_process = before.current_process
                        /\ after.current_runtime = before.current_runtime + 1
       IN (/\ before.current_process # None
           /\ ~continued
           /\ Store(c)[before.current_process].remaining_time + before.current_runtime
                > before.quantum + 1)
            => before.current_runtime = before.quantum]_vars

\* C7: RoundRobin scenario.  One core, quantum 2, P0(arrival 0, burst 3) and
\* P1(arrival 0, burst 3): the timeline is P0 P0 P1 P1 P0 P1, both complete by
\* t = 6 and each has waiting_time 3.
C7_RRScenario ==
  (/\ pc = "stats"
   /\ scheduler_class = "RoundRobin" /\ quantum = 2 /\ Len(cores) = 1
   /\ processes = <<Process(0, 0, 3), Process(1, 0, 3)>>)
  => /\ timelines = << <<<<0, 0>>, <<1, 0>>, <<2, 1>>, <<3, 1>>, <<4, 0>>, <<5, 1>>>> >>
     /\ Len(processes_by_core[1]) = 2
     /\ \A j \in 1..Len(processes_by_core[1]) :
          /\ processes_by_core[1][j].completion_time <= 6
          /\ processes_by_core[1][j].waiting_time = 3

\* C8: FCFS scenario.  One core, P0(arrival 0, burst 3) and P1(arrival 1,
\* burst 2): the timeline is P0 P0 P0 P1 P1; P0 has waiting 0 and turnaround 3,
\* P1 has waiting 2 and turnaround 4.
C8_FCFSScenario ==
  (/\ pc = "stats"
   /\ scheduler_class = "FCFS" /\ Len(cores) = 1
   /\ processes = <<Process(0, 0, 3), Process(1, 1, 2)>>)
  => /\ timelines = << <<<<0, 0>>, <<1, 0>>, <<2, 0>>, <<3, 1>>, <<4, 1>>>> >>
     /\ {processes_by_core[1][j].pid : j \in 1..Len(processes_by_core[1])} = {0, 1}
     /\ \A j \in 1..Len(processes_by_core[1]) :
          LET p == processes_by_core[1][j]
          IN /\ p.pid = 0 => p.waiting_time = 0 /\ p.turnaround_time = 3
             /\ p.pid = 1 => p.waiting_time = 2 /\ p.turnaround_time = 4

\* C8 witness: the statistics of the FCFS scenario have been computed.
C8_Witness ==
  /\ pc = "stats"
  /\ scheduler_class = "FCFS" /\ Len(cores) = 1
  /\ processes = <<Process(0, 0, 3), Process(1, 1, 2)>>
  /\ Len(timelines[1]) = 5

\* the 0-based position of input process i in the order by arrival_time that
\* keeps the input order among equal arrival times
SortedIndex(ps, i) ==
  Cardinality({j \in 1..Len(ps) :
                 \/ ps[j].arrival_time < ps[i].arrival_time
                 \/ ps[j].arrival_time = ps[i].arrival_time /\ j < i})

\* the partition of a run is the one by sorted index modulo the number of cores
StaticPartition ==
  pc # "constructed" =>
    /\ \A i \in 1..Len(processes) :
         LET r == SortedIndex(processes, i)
             k == (r % Len(cores)) + 1
             pos == (r \div Len(cores)) + 1
         IN pos <= Len(core_process_lists[k]) /\ core_process_lists[k][pos] = processes[i]
    /\ \A k \in 1..Len(cores) :
         /\ \A pos \in 1..Len(core_process_lists[k]) :
              \E i \in 1..Len(processes) :
                SortedIndex(processes, i) = (pos - 1) * Len(cores) + (k - 1)
         /\ cores[k].pc # "new" =>
              [j \in 1..Len(cores[k].processes) |-> cores[k].processes[j].pid]
                = [j \in 1..Len(core_process_lists[k]) |-> core_process_lists[k][j].pid]

\* C9: Static partitioning.  The process at index i of the input sorted by
\* arrival_time (input order kept among equal arrival times) is assigned to
\* core i mod num_cores; every core runs exactly its list, and the assignment
\* does not change once made.
C9_StaticPartitioning ==
  /\ []StaticPartition
  /\ [][pc # "constructed" => UNCHANGED <<processes, core_process_lists>>]_vars

\* C9 witness: a run on 2 cores has returned whose 3 input processes were not
\* in arrival order, two of them with equal arrival times.
C9_Witness ==
  /\ pc = "returned"
  /\ Len(cores) = 2
  /\ Len(processes) = 3
  /\ processes[1].arrival_time > processes[2].arrival_time
  /\ processes[2].arrival_time = processes[3].arrival_time
  /\ Len(core_process_lists[1]) = 2

\* the pids of core k's partition
PartitionPids(k) == {core_process_lists[k][j].pid : j \in 1..Len(core_process_lists[k])}

C11_OutputShape ==
  pc \in {"returned", "stats"} =>
    /\ results # <<>>
    /\ LET out == results[Len(results)]
       IN /\ Len(out) = Len(cores)
          /\ \A k \in 1..Len(cores) :
               /\ out[k] = cores[k].timeline
               /\ Len(out[k]) = cores[k].time
               /\ \A j \in 1..Len(out[k]) :
                    /\ out[k][j][1] = j - 1
                    /\ out[k][j][2] \in {IdlePid} \cup PartitionPids(k)

\* C11 witness: a run on 2 cores returned two non-empty timelines, the first
\* with an idle entry followed by a process.
C11_Witness ==
  /\ pc = "returned"
  /\ Len(results) = 1
  /\ Len(results[1]) = 2
  /\ Len(results[1][2]) > 0
  /\ Len(results[1][1]) > 1
  /\ results[1][1][1][2] = IdlePid
  /\ results[1][1][2][2] # IdlePid

\* C12: Input left unchanged.  No step of a run changes the caller's process
\* list: the order stays and every Process of the caller keeps its
\* remaining_time (= burst_time), start_time and completion_time (unset).
C12_InputUnchanged ==
  /\ [][processes' = processes]_vars
  /\ [](\A i \in 1..Len(processes) :
          /\ processes[i].remaining_time = processes[i].burst_time
          /\ processes[i].start_time = None
          /\ processes[i].completion_time = None)

\* C12 witness: a run has returned whose list was not in arrival order and
\* whose cores completed processes.
C12_Witness ==
  /\ pc = "returned"
  /\ Len(processes) >= 2
  /\ processes[1].arrival_time > processes[2].arrival_time
  /\ \A k \in 1..Len(cores) :
       /\ cores[k].processes # <<>>
       /\ \A i \in 1..Len(cores[k].processes) : cores[k].processes[i].completion_time # None

\* C13: Repeated runs are independent.  A second call of run on the same
\* instance with the same list returns the same timelines as the first.
C13_RepeatedRuns ==
  Len(results) >= 2 => results[2] = results[1]

\* C14: An empty process set is rejected.  A call of run with an empty list
\* ends with InvalidConfiguration and produces no timeline.
C14_EmptyRejected ==
  (processes = <<>> /\ pc # "constructed") =>
    (pc = "InvalidConfiguration" /\ timelines = <<>> /\ results = <<>>)

\* C15: Zero cores are rejected.  With no core the call of run ends with
\* InvalidConfiguration, for every list, before any simulation.
C15_ZeroCoresRejected ==
  (Len(cores) = 0 /\ pc # "constructed") => pc = "InvalidConfiguration"

\* C16: A non-positive quantum is rejected.  With RoundRobin and a quantum
\* <= 0 the call of run ends with InvalidConfiguration and no core produces a
\* timeline.
C16_QuantumRejected ==
  (scheduler_class = "RoundRobin" /\ quantum <= 0 /\ pc # "constructed") =>
    /\ pc = "InvalidConfiguration"
    /\ \A k \in 1..Len(cores) : cores[k].timeline = <<>>

\* C17: Malformed process descriptors are rejected.  A list with a negative
\* burst_time, a negative arrival_time or a pid that occurs twice never gets
\* through a run that returns normally.
C17_MalformedRejected ==
  processes \in MalformedWorkloads => pc \notin {"returned", "stats"}

\* C18: Time-limit failure is surfaced.  A call of CPUcore.run that returns
\* its timeline normally has completed every process of its partition.
C18_TimeLimitSurfaced ==
  \A k \in 1..Len(cores) :
    cores[k].pc = "returned" => cores[k].completed = Len(cores[k].processes)

\* the total burst time of core k's partition
RECURSIVE TotalBurst(_, _)
TotalBurst(k, j) ==
  IF j = 0 THEN 0 ELSE core_process_lists[k][j].burst_time + TotalBurst(k, j - 1)

\* min(100, 2 * total_burst), raised to at least 30 when total_burst < 20
TimeLimit(total_burst) ==
  IF total_burst < 15 THEN 30 ELSE IF total_burst <= 50 THEN 2 * total_burst ELSE 100

\* C19: Bounded termination.  A tick happens only while completed < total and
\* time < max_time and advances time by exactly 1; the timeline has one entry
\* per elapsed tick and never more than max_time entries, where max_time is
\* min(100, 2 * total_burst), at least 30 when total_burst < 20.  So the loop
\* leaves after at most max_time ticks.
C19_BoundedTermination ==
  /\ [](\A k \in 1..Len(cores) :
          cores[k].pc \in {"loop", "returned"} =>
            /\ cores[k].max_time = TimeLimit(TotalBurst(k, Len(core_process_lists[k])))
            /\ Len(cores[k].timeline) = cores[k].time
            /\ cores[k].time <= cores[k].max_time)
  /\ [][Tick =>
          /\ cores[cur].completed < Len(cores[cur].processes)
          /\ cores[cur].time < cores[cur].max_time
          /\ cores'[cur].time = cores[cur].time + 1
          /\ cores'[cur].max_time = cores[cur].max_time]_vars

\* C19 witness: a core returned at the cap of 100 ticks with its process
\* unfinished.
C19_Witness ==
  \E k \in 1..Len(cores) :
    /\ cores[k].pc = "returned"
    /\ Len(cores[k].timeline) = TimeCap
    /\ cores[k].completed < Len(cores[k].processes)

\* C20: Turnaround covers the burst.  A completed process has
\* completion_time - arrival_time >= burst_time, and compute_stats gives it
\* turnaround_time = completion_time - arrival_time and
\* waiting_time = turnaround_time - burst_time (the clamp at 0 has no effect).
C20_NoClamp ==
  /\ \A k \in 1..Len(cores) :
       \A r \in 1..Len(Store(cores[k])) :
         LET p == Store(cores[k])[r]
         IN p.completion_time # None => p.completion_time - p.arrival_time >= p.burst_time
  /\ pc = "stats" =>
       \A k \in 1..Len(processes_by_core) :
         \A j \in 1..Len(processes_by_core[k]) :
           LET p == processes_by_core[k][j]
           IN /\ p.turnaround_time = p.completion_time - p.arrival_time
              /\ p.waiting_time = p.turnaround_time - p.burst_time
              /\ p.waiting_time >= 0

\* C20 witness: the statistics hold a process that never waited and one that
\* waited on the same core.
C20_Witness ==
  /\ pc = "stats"
  /\ \E k \in 1..Len(processes_by_core) :
       \E i, j \in 1..Len(processes_by_core[k]) :
         /\ processes_by_core[k][i].waiting_time = 0
         /\ processes_by_core[k][j].waiting_time > 0

\* the ticks of a timeline on which pid ran
TicksOf(timeline, pid) == {timeline[i][1] : i \in {j \in 1..Len(timeline) : timeline[j][2] = pid}}

\* C21: remaining_time.  At a tick the remaining_time of the process that runs
\* decreases by exactly 1 and that of every other process stays; it is never
\* negative; a process has completion_time set exactly when its remaining_time
\* is 0, and completion_time is set at the tick that brings it to 0.
C21_RemainingTime ==
  /\ [](\A k \in 1..Len(cores) :
          \A i \in 1..Len(cores[k].processes) :
            LET p == cores[k].processes[i]
            IN /\ p.remaining_time >= 0
               /\ p.remaining_time <= p.burst_time
               /\ p.completion_time # None <=> p.remaining_time = 0)
  /\ [][Tick =>
          LET c == cores[cur]
              entry == cores'[cur].timeline[c.time + 1]
          IN /\ \A i \in 1..Len(c.processes) :
                  LET before == c.processes[i]
                      after == cores'[cur].processes[i]
                  IN /\ after.remaining_time =
                          before.remaining_time - (IF entry[2] = before.pid THEN 1 ELSE 0)
                     /\ (before.completion_time = None /\ after.completion_time # None)
                          => (entry[2] = before.pid /\ after.remaining_time = 0)
             /\ \A k \in 1..Len(cores) : k # cur => cores'[k] = cores[k]]_vars

\* C21 witness: a process of burst 3 or more completed after it had been
\* interrupted by another process of its core.
C21_Witness ==
  \E k \in 1..Len(cores) :
    \E i \in 1..Len(cores[k].processes) :
      LET p == cores[k].processes[i]
      IN /\ p.burst_time >= 3
         /\ p.remaining_time = 0
         /\ p.completion_time - p.start_time > p.burst_time

\* C22: Time stamps.  start_time is written once, at the first tick at which
\* the process runs; completion_time is written once, as the time after the
\* tick that brings remaining_time to 0, and never revised; a process that has
\* them has arrival_time <= start_time and 0 <= start_time < completion_time.
C22_TimeStamps ==
  /\ [](\A k \in 1..Len(cores) :
          \A i \in 1..Len(cores[k].processes) :
            LET p == cores[k].processes[i]
                ticks == TicksOf(cores[k].timeline, p.pid)
            IN /\ p.start_time = None <=> ticks = {}
               /\ p.start_time # None =>
                    /\ p.start_time \in ticks
                    /\ \A t \in ticks : p.start_time <= t
                    /\ p.arrival_time <= p.start_time
                    /\ 0 <= p.start_time
               /\ p.completion_time # None =>
                    /\ p.start_time # None
                    /\ p.start_time < p.completion_time
                    /\ p.completion_time - 1 \in ticks
                    /\ \A t \in ticks : t < p.completion_time)
  /\ [][Tick =>
          \A i \in 1..Len(cores[cur].processes) :
            LET before == cores[cur].processes[i]
                after == cores'[cur].processes[i]
            IN /\ before.start_time # None => after.start_time = before.start_time
               /\ before.completion_time # None =>
                    after.completion_time = before.completion_time
               /\ (before.start_time = None /\ after.start_time # None) =>
                    after.start_time = cores[cur].time
               /\ (before.completion_time = None /\ after.completion_time # None) =>
                    /\ after.completion_time = cores[cur].time + 1
                    /\ before.remaining_time = 1]_vars

\* C22 witness: a process started after its arrival, ran again at a later
\* tick after an interruption, and has completed.
C22_Witness ==
  \E k \in 1..Len(cores) :
    \E i \in 1..Len(cores[k].processes) :
      LET p == cores[k].processes[i]
      IN /\ p.start_time # None /\ p.completion_time # None
         /\ p.arrival_time < p.start_time
         /\ p.start_time + p.burst_time < p.completion_time

\* the pids of the queue entries of a scheduler's owner, in queue order
QueuePids(c) == [j \in 1..Len(c.scheduler.queue) |-> Store(c)[c.scheduler.queue[j]].pid]

\* C23: add_process is idempotent per pid.  A call of add_process with a
\* process whose pid is in the admitted set leaves the whole scheduler (queue
\* content and order, admitted set, running slot, slice counter) unchanged, for
\* FCFS, SJF and RoundRobin; the queue holds each admitted pid exactly once.
C23_AddIdempotent ==
  /\ [](LET pids == QueuePids(cores[1])
        IN /\ \A j, l \in 1..Len(pids) : j # l => pids[j] # pids[l]
           /\ Range(pids) = cores[1].scheduler.processed_pids)
  /\ [][CallAddProcess =>
          (Store(cores[1])[cores'[1].call.argument].pid \in cores[1].scheduler.processed_pids
             => cores'[1].scheduler = cores[1].scheduler)]_vars

\* C23 witness: add_process was called with an object that is not in the queue
\* although its pid is admitted (another object with the same pid is queued),
\* while a RoundRobin slice is under way.
C23_Witness ==
  /\ pc = "client"
  /\ scheduler_class = "RoundRobin"
  /\ cores[1].call.op = "add_process"
  /\ cores[1].call.argument \notin Range(cores[1].scheduler.queue)
  /\ Store(cores[1])[cores[1].call.argument].pid \in cores[1].scheduler.processed_pids
  /\ cores[1].scheduler.current_process # None

\* C24: No selection before arrival.  Every process a call of
\* get_next_process(current_time) returns has arrival_time <= current_time and
\* remaining_time > 0, for each scheduler and every sequence of calls with
\* non-decreasing times, also when the process was admitted before its arrival
\* and when RoundRobin returns the process of its running slot.
C24_NoEarlySelection ==
  [][CallGetNextProcess =>
       LET result == cores'[1].call.result
       IN result # None =>
            /\ Store(cores[1])[result].arrival_time <= cores[1].time
            /\ Store(cores[1])[result].remaining_time > 0]_vars

\* C24 witness: at time 0 RoundRobin returned the process of its running slot
\* (second call of the slice) while its queue holds a process that was
\* admitted before its arrival.
C24_Witness ==
  /\ pc = "client"
  /\ scheduler_class = "RoundRobin"
  /\ cores[1].time = 0
  /\ cores[1].call.op = "get_next_process"
  /\ cores[1].call.result # None
  /\ cores[1].call.result = cores[1].scheduler.current_process
  /\ cores[1].scheduler.current_runtime = 2
  /\ \E j \in 1..Len(cores[1].scheduler.queue) :
       Store(cores[1])[cores[1].scheduler.queue[j]].arrival_time > cores[1].time

\* the number of entries of queue q that are the reference r
Occurrences(q, r) == Cardinality({j \in 1..Len(q) : q[j] = r})

\* C25: get_next_process is a query.  A call of get_next_process changes no
\* Process record (remaining_time, start_time, completion_time), leaves the
\* admitted set and the membership of the queue as they were, changes nothing
\* at all in FCFS and SJF, and in RoundRobin changes at most the order of the
\* queue, the running slot and the slice counter.
C25_GetNextIsQuery ==
  [][CallGetNextProcess =>
       LET before == cores[1].scheduler
           after == cores'[1].scheduler
       IN /\ cores'[1].processes = cores[1].processes
          /\ cores'[1].retired = cores[1].retired
          /\ after.processed_pids = before.processed_pids
          /\ Len(after.queue) = Len(before.queue)
          /\ \A r \in 1..Len(Store(cores[1])) :
               Occurrences(after.queue, r) = Occurrences(before.queue, r)
          /\ scheduler_class \in {"FCFS", "SJF"} => after = before
          /\ after.quantum = before.quantum]_vars

\* C25 witness: a RoundRobin call started the slice of the process it returned
\* while a finished process is still in the queue of 3: the returned process
\* is at the tail, the finished one in front of it.
C25_Witness ==
  /\ pc = "client"
  /\ scheduler_class = "RoundRobin"
  /\ cores[1].call.op = "get_next_process"
  /\ cores[1].call.result # None
  /\ Len(cores[1].scheduler.queue) = 3
  /\ cores[1].scheduler.queue[3] = cores[1].call.result
  /\ cores[1].scheduler.current_runtime = 1
  /\ Store(cores[1])[cores[1].scheduler.queue[2]].remaining_time = 0

\* C26: FCFS order and tie-break.  Under FCFS the process that runs at a tick
\* has the smallest arrival_time among the arrived unfinished processes of the
\* core; among those with that arrival_time it is the one admitted first (the
\* first in the core's list), which is also the one with the smallest pid; the
\* processes of a core start in non-decreasing arrival_time order.
C26_FCFSTieBreak ==
  /\ [](scheduler_class = "FCFS" =>
          \A k \in 1..Len(cores) :
            \A i, j \in 1..Len(cores[k].processes) :
              LET p == cores[k].processes[i]
                  q == cores[k].processes[j]
              IN (p.start_time # None /\ q.start_time # None /\ p.start_time < q.start_time)
                   => p.arrival_time <= q.arrival_time)
  /\ [][(Tick /\ scheduler_class = "FCFS") =>
          LET c == cores[cur]
              entry == cores'[cur].timeline[c.time + 1]
          IN entry[2] # IdlePid =>
               \E i \in 1..Len(c.processes) :
                 /\ c.processes[i].pid = entry[2]
                 /\ ReadyAt(c, i, c.time)
                 /\ \A j \in 1..Len(c.processes) :
                      (ReadyAt(c, j, c.time) /\ j # i) =>
                        \/ c.processes[i].arrival_time < c.processes[j].arrival_time
                        \/ /\ c.processes[i].arrival_time = c.processes[j].arrival_time
                           /\ i < j
                           /\ c.processes[i].pid < c.processes[j].pid]_vars

\* C27: SJF tie-break.  Under SJF, among the arrived unfinished processes that
\* share the minimum remaining_time, the one that runs has the smallest
\* arrival_time, and among those with equal arrival_time the smallest pid,
\* whatever the order of the pids in the input list.
C27_SJFTieBreak ==
  [][(Tick /\ scheduler_class = "SJF") =>
       LET c == cores[cur]
           entry == cores'[cur].timeline[c.time + 1]
       IN entry[2] # IdlePid =>
            \E i \in 1..Len(c.processes) :
              /\ c.processes[i].pid = entry[2]
              /\ ReadyAt(c, i, c.time)
              /\ \A j \in 1..Len(c.processes) :
                   (/\ ReadyAt(c, j, c.time)
                    /\ j # i
                    /\ c.processes[j].remaining_time = c.processes[i].remaining_time) =>
                     \/ c.processes[i].arrival_time < c.processes[j].arrival_time
                     \/ /\ c.processes[i].arrival_time = c.processes[j].arrival_time
                        /\ c.processes[i].pid < c.processes[j].pid]_vars

\* the reference r of the client's scheduler is to a process that has arrived
\* at time t and is unfinished
ReadyRef(r, t) ==
  Store(cores[1])[r].arrival_time <= t /\ Store(cores[1])[r].remaining_time > 0

\* the first entry of queue q that is ready at time t, None if there is none
FirstReadyEntry(q, t) ==
  IF \E j \in 1..Len(q) : ReadyRef(q[j], t)
    THEN q[CHOOSE j \in 1..Len(q) :
             ReadyRef(q[j], t) /\ \A l \in 1..(j - 1) : ~ReadyRef(q[l], t)]
    ELSE None

C29_RRRotation ==
  /\ [][(CallAddProcess /\ scheduler_class = "RoundRobin") =>
          LET before == cores[1].scheduler
              argument == cores'[1].call.argument
          IN Store(cores[1])[argument].pid \notin before.processed_pids =>
               cores'[1].scheduler.queue = Append(before.queue, argument)]_vars
  /\ [][(CallGetNextProcess /\ scheduler_class = "RoundRobin") =>
          LET q == cores[1].scheduler.queue
              after == cores'[1].scheduler
              result == cores'[1].call.result
          IN IF after.current_runtime >= 2
               THEN after.queue = q /\ result = cores[1].scheduler.current_process
             ELSE IF \A j \in 1..Len(q) : ~ReadyRef(q[j], cores[1].time)
               THEN after.queue = q /\ result = None
             ELSE LET k == CHOOSE j \in 1..Len(q) :
                             /\ ReadyRef(q[j], cores[1].time)
                             /\ \A l \in 1..(j - 1) : ~ReadyRef(q[l], cores[1].time)
                  IN /\ result = q[k]
                     /\ after.queue =
                          SubSeq(q, k + 1, Len(q)) \o SubSeq(q, 1, k - 1) \o <<q[k]>>]_vars

\* C29 witness: at time 0 a RoundRobin call returned the process at the tail
\* of a queue of 3 whose two other entries were admitted before their arrival.
C29_Witness ==
  /\ pc = "client"
  /\ scheduler_class = "RoundRobin"
  /\ cores[1].time = 0
  /\ cores[1].call.op = "get_next_process"
  /\ Len(cores[1].scheduler.queue) = 3
  /\ cores[1].call.result = cores[1].scheduler.queue[3]
  /\ cores[1].scheduler.current_runtime = 1
  /\ Store(cores[1])[cores[1].scheduler.queue[1]].arrival_time > 0
  /\ Store(cores[1])[cores[1].scheduler.queue[2]].arrival_time > 0

\* C30: RoundRobin requeue position.  When a call of get_next_process ends the
\* slice of a running process that has more than 1 tick left (its quantum has
\* expired), the process goes behind every process that is in the queue then,
\* also behind those admitted during its slice: the tick does not go to the
\* preempted process while another arrived unfinished process is in the queue.
C30_RRRequeueAtBack ==
  [][(Tick /\ scheduler_class = "RoundRobin") =>
       LET c == cores[cur]
           before == c.scheduler
           entry == cores'[cur].timeline[c.time + 1]
       IN (/\ before.current_process # None
           /\ Store(c)[before.current_process].remaining_time > 1
           /\ before.current_runtime + 1 >= before.quantum
           /\ \E j \in 1..Len(c.processes) :
                Ref(c, j) # before.current_process /\ ReadyAt(c, j, c.time))
            => entry[2] # Store(c)[before.current_process].pid]_vars

\* C31: quantum as a cap on consecutive execution.  On a core driven by
\* RoundRobin with quantum q >= 1 the timeline has no q + 1 consecutive entries
\* of one pid such that another process of the core has arrived by the first
\* of them and is unfinished throughout them.
C31_QuantumCap ==
  scheduler_class = "RoundRobin" =>
    \A k \in 1..Len(cores) :
      LET c == cores[k]
          tl == c.timeline
      IN c.pc \in {"loop", "returned"} =>
           \A i \in 1..(Len(tl) - quantum) :
             (/\ tl[i][2] # IdlePid
              /\ \A d \in 1..quantum : tl[i + d][2] = tl[i][2])
             => ~\E j \in 1..Len(c.processes) :
                   /\ c.processes[j].pid # tl[i][2]
                   /\ c.processes[j].arrival_time <= tl[i][1]
                   /\ Count(SubSeq(tl, 1, i + quantum), c.processes[j].pid)
                        < c.processes[j].burst_time

\* C32: core admission step.  Once CPUcore.run has queried the scheduler for
\* tick t (the core's time is t + 1), the processes passed to add_process are
\* exactly those of the partition with arrival_time <= t: their pids are the
\* added pids, each of them is in the scheduler's queue exactly once, and no
\* process with a later arrival_time is in the queue; nothing is admitted
\* before the first tick.
C32_Admission ==
  \A k \in 1..Len(cores) :
    LET c == cores[k]
        admitted == {i \in 1..Len(c.processes) : c.processes[i].arrival_time <= c.time - 1}
    IN c.pc \in {"loop", "returned"} =>
         /\ c.added_processes = {c.processes[i].pid : i \in admitted}
         /\ c.scheduler.processed_pids = c.added_processes
         /\ Len(c.scheduler.queue) = Cardinality(admitted)
         /\ \A i \in 1..Len(c.processes) :
              Occurrences(c.scheduler.queue, Ref(c, i)) = IF i \in admitted THEN 1 ELSE 0

\* C32 witness: after the tick of t = 1 of a core, one process that arrived at
\* 0 and one that arrived at 1 are both admitted, a third one that arrives
\* later is not, and the core has run a process at t = 1.
C32_Witness ==
  \E k \in 1..Len(cores) :
    LET c == cores[k]
    IN /\ c.pc = "loop"
       /\ c.time = 2
       /\ c.timeline[2][2] # IdlePid
       /\ \E i, j, l \in 1..Len(c.processes) :
            /\ c.processes[i].arrival_time = 0
            /\ c.processes[j].arrival_time = 1
            /\ c.processes[l].arrival_time > 1
            /\ c.processes[i].pid \in c.added_processes
            /\ c.processes[j].pid \in c.added_processes
            /\ c.processes[l].pid \notin c.added_processes

C34_Accounting ==
  \A k \in 1..Len(cores) :
    LET c == cores[k]
        pids == {c.processes[i].pid : i \in 1..Len(c.processes)}
    IN c.pc \in {"loop", "returned"} =>
         /\ \A i \in 1..Len(c.processes) :
              /\ Count(c.timeline, c.processes[i].pid) + c.processes[i].remaining_time
                   = c.processes[i].burst_time
              /\ Count(c.timeline, c.processes[i].pid) <= c.processes[i].burst_time
         /\ PidsOf(c.timeline) \subseteq pids
         /\ Len(c.timeline) = c.time
         /\ Cardinality({j \in 1..Len(c.timeline) : c.timeline[j][2] \in pids})
              = c.time - Count(c.timeline, IdlePid)

\* C34 witness: a run was cut off by the time limit while a process of burst 2
\* had run one of its two ticks.
C34_Witness ==
  \E k \in 1..Len(cores) :
    LET c == cores[k]
    IN /\ c.pc = "returned"
       /\ c.time = c.max_time
       /\ c.completed < Len(c.processes)
       /\ \E i \in 1..Len(c.processes) :
            /\ c.processes[i].burst_time = 2
            /\ c.processes[i].remaining_time = 1
            /\ Count(c.timeline, c.processes[i].pid) = 1

\* C35: time-limit message only on non-convergence.  When CPUcore.run has
\* returned with the 'Time limit exceeded' message, at least one process of
\* the core's partition is incomplete.
C35_MessageOnlyIfIncomplete ==
  \A k \in 1..Len(cores) :
    (cores[k].pc = "returned" /\ cores[k].time_limit_message)
      => \E i \in 1..Len(cores[k].processes) :
           cores[k].processes[i].completion_time = None

\* main.py lines 276-291: the first and the last time a pid is seen on a timeline
first_seen(timeline, pid) ==
  CHOOSE t \in TicksOf(timeline, pid) : \A u \in TicksOf(timeline, pid) : t <= u

last_seen(timeline, pid) ==
  CHOOSE t \in TicksOf(timeline, pid) : \A u \in TicksOf(timeline, pid) : u <= t

\* C36: timeline and stamps agree.  Entry number j of a core's timeline is the
\* tick j - 1; a completed process has entries, its start_time is the time of
\* the first and its completion_time is 1 + the time of the last of them; once
\* every process of a non-empty partition has completed, the last entry of the
\* timeline is not idle and the length of the timeline is the largest
\* completion_time of the partition.
C36_TimelineAgreesWithStamps ==
  \A k \in 1..Len(cores) :
    LET c == cores[k]
        tl == c.timeline
    IN c.pc \in {"loop", "returned"} =>
         /\ \A j \in 1..Len(tl) : tl[j][1] = j - 1
         /\ \A i \in 1..Len(c.processes) :
              LET p == c.processes[i]
              IN p.completion_time # None =>
                   /\ TicksOf(tl, p.pid) # {}
                   /\ p.start_time = first_seen(tl, p.pid)
                   /\ p.completion_time = last_seen(tl, p.pid) + 1
         /\ (/\ Len(c.processes) > 0
             /\ \A i \in 1..Len(c.processes) : c.processes[i].completion_time # None)
            => /\ tl[Len(tl)][2] # IdlePid
               /\ \E i \in 1..Len(c.processes) : c.processes[i].completion_time = Len(tl)
               /\ \A i \in 1..Len(c.processes) : c.processes[i].completion_time <= Len(tl)

\* C36 witness: a core has returned with its two or more processes completed
\* after an idle first tick, one of them interrupted by another (its entries
\* are not consecutive).
C36_Witness ==
  \E k \in 1..Len(cores) :
    LET c == cores[k]
    IN /\ c.pc = "returned"
       /\ Len(c.processes) >= 2
       /\ c.completed = Len(c.processes)
       /\ c.timeline[1][2] = IdlePid
       /\ \E i \in 1..Len(c.processes) :
            c.processes[i].completion_time - c.processes[i].start_time
              > c.processes[i].burst_time

\* C37: SJF preemption condition.  On a core driven by SJF, when the process
\* that ran at tick t - 1 is unfinished and the tick t runs a different
\* process, that process has arrival_time = t, has not run before, and its
\* burst_time is strictly smaller than the remaining_time the replaced process
\* has at t; the tick is never idle while the process of tick t - 1 is
\* unfinished.
C37_SJFPreemption ==
  [][(Tick /\ scheduler_class = "SJF") =>
       LET c == cores[cur]
           t == c.time
           entry == cores'[cur].timeline[t + 1]
       IN t >= 1 =>
            \A i \in 1..Len(c.processes) :
              (/\ c.timeline[t][2] = c.processes[i].pid
               /\ c.processes[i].remaining_time > 0
               /\ entry[2] # c.processes[i].pid)
              => \E j \in 1..Len(c.processes) :
                   /\ j # i
                   /\ entry[2] = c.processes[j].pid
                   /\ c.processes[j].arrival_time = t
                   /\ c.processes[j].remaining_time = c.processes[j].burst_time
                   /\ c.processes[j].burst_time < c.processes[i].remaining_time]_vars

\* C37 witness: under SJF a process that arrived at 0 ran at tick 0, is
\* unfinished, and was replaced at tick 1 by a process that arrived at 1 with a
\* burst_time smaller than the remaining_time of the first.
C37_Witness ==
  /\ scheduler_class = "SJF"
  /\ \E k \in 1..Len(cores) :
       LET c == cores[k]
       IN /\ c.pc = "loop"
          /\ c.time = 2
          /\ \E i, j \in 1..Len(c.processes) :
               /\ c.processes[i].arrival_time = 0
               /\ c.timeline[1][2] = c.processes[i].pid
               /\ c.timeline[2][2] = c.processes[j].pid
               /\ c.processes[i].remaining_time > 0
               /\ c.processes[j].arrival_time = 1
               /\ c.processes[j].burst_time < c.processes[i].remaining_time

\* the tick of state number n of a core's history started a slice of the
\* process with reference r: the call of get_next_process selected r from the
\* rotation
SliceStart(history, n, r) ==
  /\ history[n].scheduler.current_process = r
  /\ history[n].scheduler.current_runtime = 1

\* C38: RoundRobin fairness.  In the history of a RoundRobin core (its states
\* after each tick), between two consecutive slice starts of a process P every
\* other process that was in the queue, arrived and unfinished when the first
\* of the two slices started has started a slice; and a run that the time
\* limit did not cut off has started a slice for every process.
C38_RRFairness ==
  (pc = "returned" /\ scheduler_class = "RoundRobin") =>
    \A k \in 1..Len(cores) :
      LET c == cores[k]
          history == RunTrace(scheduler_class, Enter(NewCore(quantum), core_process_lists[k]))
          refs == {Ref(c, i) : i \in 1..Len(c.processes)}
      IN /\ Len(history) = c.time
         /\ c.time > 0 =>
              /\ history[c.time].timeline = c.timeline
              /\ history[c.time].processes = c.processes
              /\ history[c.time].scheduler = c.scheduler
         /\ \A n1, n2 \in 1..Len(history) :
              \A P, Q \in refs :
                (/\ n1 < n2
                 /\ P # Q
                 /\ SliceStart(history, n1, P)
                 /\ SliceStart(history, n2, P)
                 /\ \A n \in (n1 + 1)..(n2 - 1) : ~SliceStart(history, n, P)
                 /\ Occurrences(history[n1].scheduler.queue, Q) = 1
                 /\ Store(history[n1])[Q].arrival_time <= n1 - 1
                 /\ Store(history[n1])[Q].remaining_time > 0)
                => \E n \in (n1 + 1)..(n2 - 1) : SliceStart(history, n, Q)
         /\ c.time < c.max_time =>
              \A Q \in refs : \E n \in 1..Len(history) : SliceStart(history, n, Q)

\* C38 witness: a RoundRobin run has returned in which a process started two
\* slices and, between them, the two other processes of its core, both in the
\* queue and unfinished at its first slice, each started one.
C38_Witness ==
  /\ pc = "returned"
  /\ scheduler_class = "RoundRobin"
  /\ \E k \in 1..Len(cores) :
       LET c == cores[k]
           history == RunTrace(scheduler_class, Enter(NewCore(quantum), core_process_lists[k]))
       IN /\ Len(c.processes) = 3
          /\ \E n1, n2 \in 1..Len(history) :
               \E P \in {Ref(c, i) : i \in 1..3} :
                 /\ n1 < n2
                 /\ SliceStart(history, n1, P)
                 /\ SliceStart(history, n2, P)
                 /\ \A Q \in {Ref(c, i) : i \in 1..3} \ {P} :
                      /\ Occurrences(history[n1].scheduler.queue, Q) = 1
                      /\ Store(history[n1])[Q].remaining_time > 0
                      /\ \E n \in (n1 + 1)..(n2 - 1) : SliceStart(history, n, Q)

====
